---- MODULE Spec2Model ----
(***************************************************************************)
(* A model of new_work_orders_to_knack.py: the ETL job that copies new     *)
(* sign work orders from ArcGIS Online (AGOL) to Knack and writes the      *)
(* Knack record ids back to AGOL.                                          *)
(*                                                                         *)
(* Conventions                                                             *)
(*   - a feature is [geometry |-> [x |-> n], attributes |-> [...]], as an  *)
(*     arcgis.Feature; all geometries are points of the line y = 0, so     *)
(*     that the planar (shapely) distance of two is exactly |x1 - x2|;     *)
(*   - Python's None is the record None; math.inf is INF;                  *)
(*   - a function that may raise returns [raised |-> FALSE, value |-> v]   *)
(*     or [raised |-> TRUE, exc |-> <exception type>, msg |-> <message>].  *)
(***************************************************************************)
EXTENDS Integers, Sequences, FiniteSets, TLC

VARIABLES
    pc,                \* position of the running code
    arg,               \* argument of the function under call (function runs)
    ret,               \* its return value, or the exception that was raised
    signs,             \* WorkOrder.signs.features of the work order at hand
    street_segments,   \* WorkOrder.street_segments
    sign_segments,     \* WorkOrder.sign_segments
    attributes,        \* WorkOrder.attributes
    knack_payload,     \* WorkOrder.knack_payload, then .knack_update_payload
    knack_record,      \* WorkOrder.knack_record
    run,               \* how many times main was started
    work_orders,       \* the list work_orders of main
    wo_i,              \* index in work_orders of the work order at hand
    sign_i,            \* index in signs of the sign at hand (loop of line 456)
    writes,            \* the writes both services accepted in this run, in order
    agol_work_orders,  \* AGOL: the Knack fields of the work order features
    agol_signs         \* AGOL: the Knack fields of the sign features

wo_vars == <<signs, street_segments, sign_segments, attributes, knack_payload, knack_record>>
main_vars == <<run, work_orders, wo_i, sign_i>>
ext_vars == <<writes, agol_work_orders, agol_signs>>
vars == <<pc, arg, ret, wo_vars, main_vars, ext_vars>>

\* Python values whose type the code tests or formats: None, str, int
None == [t |-> "NoneType"]
Str(s) == [t |-> "str", v |-> s]
Num(n) == [t |-> "int", v |-> n]

\* bool(v): None, "" and 0 are falsy
truthy(v) == CASE v.t = "NoneType" -> FALSE
               [] v.t = "str" -> v.v # ""
               [] v.t = "int" -> v.v # 0

\* f"{v}": str(v)
format(v) == CASE v.t = "NoneType" -> "None"
               [] v.t = "str" -> v.v
               [] v.t = "int" -> ToString(v.v)

\* math.inf (line 45): a value no distance takes, greater than every distance
INF == -1

Returned(v) == [raised |-> FALSE, value |-> v]
Raised(exc, msg) == [raised |-> TRUE, exc |-> exc, msg |-> msg]

\* mutant: the loop of main catches the exception and goes on
raise_caught(e) ==
    /\ pc' = "for_work_orders"
    /\ ret' = [raised |-> TRUE, exc |-> e.exc, msg |-> e.msg, at |-> pc]

\* an exception leaves main, which catches none (lines 417-470): the process
\* ends with the exception and the place that raised it
Raise(e) ==
    /\ pc' = "crashed"
    /\ ret' = [raised |-> TRUE, exc |-> e.exc, msg |-> e.msg, at |-> pc]

Range(s) == {s[i] : i \in DOMAIN s}

\* sequences over S of length lo..hi
SeqsOf(S, lo, hi) == UNION {[1..n -> S] : n \in lo..hi}

(***************************************************************************)
(* find_nearest_feature                                                    *)
(***************************************************************************)

\* float comparison a < b where b may be math.inf
LessThan(a, b) == IF b = INF THEN a # INF ELSE a # INF /\ a < b

\* shapely distance of two geometries on the line
distance(g, h) == IF g.x >= h.x THEN g.x - h.x ELSE h.x - g.x

\* mutant: a candidate at the same distance replaces the one found before
nearest_step_lastwins(input_feature, search_feature, acc) ==
    LET distance_current == distance(input_feature.geometry, search_feature.geometry)
    IN  IF ~LessThan(acc[2], distance_current)
        THEN <<search_feature, distance_current>>
        ELSE acc

\* one turn of the loop of find_nearest_feature; acc = <<nearest, shortest>>
nearest_step(input_feature, search_feature, acc) ==
    LET distance_current == distance(input_feature.geometry, search_feature.geometry)
    IN  IF LessThan(distance_current, acc[2])
        THEN <<search_feature, distance_current>>
        ELSE acc

RECURSIVE nearest_loop(_, _, _, _)
nearest_loop(input_feature, search_features, i, acc) ==
    IF i > Len(search_features)
    THEN acc
    ELSE nearest_loop(input_feature, search_features, i + 1,
                      nearest_step(input_feature, search_features[i], acc))

\* mutant: the search starts from the distance 0
find_nearest_feature_from_zero(input_feature, search_features) ==
    nearest_loop(input_feature, search_features, 1, <<None, 0>>)

find_nearest_feature(input_feature, search_features) ==
    nearest_loop(input_feature, search_features, 1, <<None, INF>>)

(***************************************************************************)
(* block_range                                                             *)
(***************************************************************************)

\* Python's min and max of a non-empty list of integers
RECURSIVE min(_)
min(l) == IF Len(l) = 1 THEN l[1]
          ELSE LET m == min(Tail(l)) IN IF m < l[1] THEN m ELSE l[1]

RECURSIVE max(_)
max(l) == IF Len(l) = 1 THEN l[1]
          ELSE LET m == max(Tail(l)) IN IF m > l[1] THEN m ELSE l[1]

\* math.floor(n / 100) and math.ceil(n / 100)
floor_div_100(n) == n \div 100
ceil_div_100(n) == -((-n) \div 100)

\* mutant: both ends rounded down
block_range_floor_end(segments) ==
    IF segments = <<>>
    THEN Raised("ValueError", "min() arg is an empty sequence")
    ELSE LET blk_start == min([i \in DOMAIN segments |->
                                  segments[i].attributes.LEFT_BLOCK_FROM])
             blk_end == max([i \in DOMAIN segments |->
                                segments[i].attributes.LEFT_BLOCK_TO])
         IN  Returned(<<floor_div_100(blk_start) * 100, floor_div_100(blk_end) * 100>>)

block_range(segments) ==
    IF segments = <<>>
    THEN Raised("ValueError", "min() arg is an empty sequence")
    ELSE LET blk_start == min([i \in DOMAIN segments |->
                                  segments[i].attributes.LEFT_BLOCK_FROM])
             blk_end == max([i \in DOMAIN segments |->
                                segments[i].attributes.LEFT_BLOCK_TO])
             blk_start_round == floor_div_100(blk_start) * 100
             blk_end_round == ceil_div_100(blk_end) * 100
         IN  Returned(<<blk_start_round, blk_end_round>>)

(***************************************************************************)
(* WorkOrder.construct_location                                            *)
(***************************************************************************)

\* the keys of collections.Counter(street_names), in insertion order
RECURSIVE counter_keys(_)
counter_keys(street_names) ==
    IF street_names = <<>>
    THEN <<>>
    ELSE LET n == Len(street_names)
             before == counter_keys(SubSeq(street_names, 1, n - 1))
         IN  IF street_names[n] \in Range(before)
             THEN before
             ELSE Append(before, street_names[n])

\* name_counts.items(): <<name, count>> in insertion order
counter_items(street_names) ==
    LET keys == counter_keys(street_names)
    IN  [k \in DOMAIN keys |->
            <<keys[k], Cardinality({i \in DOMAIN street_names : street_names[i] = keys[k]})>>]

\* mutant: among equal counts the last name wins
RECURSIVE max_by_count_last(_)
max_by_count_last(items) ==
    IF Len(items) = 1
    THEN items[1]
    ELSE LET n == Len(items)
             best == max_by_count_last(SubSeq(items, 1, n - 1))
         IN  IF items[n][2] >= best[2] THEN items[n] ELSE best

\* max(items, key=operator.itemgetter(1)) of a non-empty list: the first item
\* with the greatest count
RECURSIVE max_by_count(_)
max_by_count(items) ==
    IF Len(items) = 1
    THEN items[1]
    ELSE LET n == Len(items)
             best == max_by_count(SubSeq(items, 1, n - 1))
         IN  IF items[n][2] > best[2] THEN items[n] ELSE best

\* lines 198-201
most_common_name(segs) ==
    max_by_count(counter_items([i \in DOMAIN segs |-> segs[i].attributes.FULL_STREET_NAME]))[1]

\* mutant: the matched segments are not filtered by name
is_named_or_not(s, name) == TRUE

\* the condition of the list comprehension of lines 203-207
is_named(s, name) == s.attributes.FULL_STREET_NAME = name

\* mutant: the range form is used for a single segment too
location_name_always_range(n, blk, name) ==
    ToString(blk[1]) \o "-" \o ToString(blk[2]) \o " " \o name

\* lines 213-216
location_name(n, blk, name) ==
    IF n = 1
    THEN ToString(blk[1]) \o " BLK " \o name
    ELSE ToString(blk[1]) \o "-" \o ToString(blk[2]) \o " " \o name

\* the update of self.attributes by construct_location, or what it raises
construct_location(segs) ==
    IF \E i \in DOMAIN segs : segs[i] = None
    THEN Raised("AttributeError", "'NoneType' object has no attribute 'attributes'")
    ELSE IF segs = <<>>
    THEN Raised("ValueError", "max() arg is an empty sequence")
    ELSE LET name == most_common_name(segs)
             street_segments_block_range == SelectSeq(segs, LAMBDA s : is_named(s, name))
             blk == block_range(street_segments_block_range).value
             street_segment_id == street_segments_block_range[1].attributes.SEGMENT_ID
         IN  Returned([GENERATED_LOCATION_FROM_API |->
                           location_name(Len(street_segments_block_range), blk, name),
                       LOCATION_STREET_SEGMENT_ID_REFERENCE |-> street_segment_id])

(***************************************************************************)
(* construct_engineer_note                                                 *)
(***************************************************************************)

\* "".join(parts), as the list of the lines joined: an empty part adds nothing
join(parts) == SelectSeq(parts, LAMBDA p : p # "")

\* mutant: the note of a removal built like the note of an installation
construct_engineer_note_same(data) ==
    LET action_value == data.INSTRUCTIONS
        action == "Action: " \o format(data.INSTRUCTIONS) \o "\n"
        comments == IF truthy(data.COMMENTS)
                    THEN "Note: " \o format(data.COMMENTS) \o "\n" ELSE ""
        future_spd == "Speed limit: " \o format(data.FUTURE_SPEED_LIMIT) \o "\n"
        custom_sign == IF truthy(data.CUSTOM_SIGN)
                       THEN "Custom sign: " \o format(data.CUSTOM_SIGN) \o "\n" ELSE ""
        sign_type == "Size: " \o format(data.SIGN_TYPE) \o "\n"
    IN  IF action_value \in {Str("REPLACE"), Str("INSTALL"), Str("REMOVE")}
        THEN Returned(join(<<action, future_spd, sign_type, custom_sign, comments>>))
        ELSE Raised("ValueError",
                    "Unknown INSTRUCTIONS value for sign feature: " \o format(action_value))

construct_engineer_note(data) ==
    LET action_value == data.INSTRUCTIONS
        action == "Action: " \o format(data.INSTRUCTIONS) \o "\n"
        comments == IF truthy(data.COMMENTS)
                    THEN "Note: " \o format(data.COMMENTS) \o "\n" ELSE ""
        current_spd == "Speed Limit: " \o format(data.CURRENT_SPEED_LIMIT) \o "\n"
        future_spd == "Speed limit: " \o format(data.FUTURE_SPEED_LIMIT) \o "\n"
        custom_sign == IF truthy(data.CUSTOM_SIGN)
                       THEN "Custom sign: " \o format(data.CUSTOM_SIGN) \o "\n" ELSE ""
        sign_type == "Size: " \o format(data.SIGN_TYPE) \o "\n"
    IN  IF action_value = Str("REPLACE") \/ action_value = Str("INSTALL")
        THEN Returned(join(<<action, future_spd, sign_type, custom_sign, comments>>))
        ELSE IF action_value = Str("REMOVE")
        THEN Returned(join(<<action, current_spd, comments>>))
        ELSE Raised("ValueError",
                    "Unknown INSTRUCTIONS value for sign feature: " \o format(action_value))

(***************************************************************************)
(* Inputs                                                                  *)
(***************************************************************************)

MaxCandidates == 3      \* candidates of one find_nearest_feature call
MaxBlockSegments == 2   \* segments of one block_range call
MaxSigns == 3           \* signs of a work order (location runs)
MaxSegments == 2        \* street segments of a work order (location runs)

Coords == {0, 1, 2}
StreetNames == {"MAIN ST", "OAK ST"}
BlockNumbers == {-50, 0, 1, 99, 100, 1210, 1240}
\* the block numbers of the segment at coordinate x
BlockPair(x) == IF x = 1 THEN <<1210, 1240>> ELSE <<500, 650>>

PointFeature(x, id) ==
    [geometry |-> [x |-> x, y |-> 0], attributes |-> [OBJECTID |-> id]]

BlockSegment(from, to) ==
    [attributes |-> [LEFT_BLOCK_FROM |-> from, LEFT_BLOCK_TO |-> to]]

\* a street segment; its SEGMENT_ID is unique to it
Segment(x, name, blk) ==
    [geometry |-> [x |-> x, y |-> 0],
     attributes |-> [FULL_STREET_NAME |-> name,
                     LEFT_BLOCK_FROM |-> blk[1],
                     LEFT_BLOCK_TO |-> blk[2],
                     SEGMENT_ID |-> 10000 * (x + 1) + blk[1]
                                    + (IF name = "MAIN ST" THEN 5000 ELSE 0)]]

Segments == {Segment(x, n, BlockPair(x)) : x \in Coords, n \in StreetNames}

SignData ==
    [INSTRUCTIONS : {Str("REPLACE"), Str("INSTALL"), Str("REMOVE"), Str("RELOCATE"), None},
     COMMENTS : {None, Str(""), Str("see plan")},
     CURRENT_SPEED_LIMIT : {Num(30), None},
     FUTURE_SPEED_LIMIT : {Num(25), None},
     CUSTOM_SIGN : {None, Str("R2-1 25")},
     SIGN_TYPE : {Str("24x30")}]

NearestArgs ==
    {[fn |-> "find_nearest_feature",
      input_feature |-> PointFeature(x, 0),
      search_features |-> [i \in DOMAIN xs |-> PointFeature(xs[i], i)]] :
        x \in Coords, xs \in SeqsOf(Coords, 0, MaxCandidates)}

BlockRangeArgs ==
    {[fn |-> "block_range",
      segments |-> [i \in DOMAIN bs |-> BlockSegment(bs[i][1], bs[i][2])]] :
        bs \in SeqsOf(BlockNumbers \X BlockNumbers, 0, MaxBlockSegments)}

NoteArgs == {[fn |-> "construct_engineer_note", data |-> d] : d \in SignData}

(***************************************************************************)
(* main: its steps, and the features of the two AGOL layers it edits       *)
(***************************************************************************)

MaxRuns == 2             \* runs of main, one after the other (SpecRerun)
MaxWorkOrders == 2       \* work order features the query of main returns
MaxWorkOrderSigns == 3   \* sign features that intersect one work order

WorkOrderIds == 1..MaxWorkOrders
\* the OBJECTID of the k-th sign of work order w
SignId(w, k) == 10 * w + k
SignIds == {SignId(w, k) : w \in WorkOrderIds, k \in 1..MaxWorkOrderSigns}

\* the fields the job writes, on a feature it never wrote
NoWorkOrderKnackFields ==
    [KNACK_WORK_ORDER_ID |-> None,
     KNACK_RECORD_ID |-> None,
     WORK_ORDER_STATUS |-> None]

NoSignKnackFields ==
    [KNACK_WORK_ORDER_ID |-> None,
     KNACK_RECORD_ID |-> None,
     WORK_ORDER_STATUS |-> None,
     KNACK_LOCATION_ID |-> None,
     KNACK_LOCATION_RECORD_ID |-> None]

\* the statements of the body of the loop of main, in order (lines 418-471)
MainSteps ==
    <<"get_signs",
      "identify_eng_area",
      "identify_street_segments",
      "identify_nearest_sign_segments",
      "construct_location",
      "set_knack_user_id",
      "set_knack_work_order_attributes",
      "create_knack_work_order_payload",
      "create_knack_signs_payload",
      "create_knack_work_order",
      "prepare_agol_work_order_edits",
      "update_agol_work_order",
      "update_knack_signs_payload",
      "for_signs",
      "create_knack_work_order_update_payload",
      "update_hold",
      "breakpoint",
      "for_work_orders">>

\* mutant: the work order record is created before the sign payloads are built
MainStepsCreateFirst ==
    <<"get_signs",
      "identify_eng_area",
      "identify_street_segments",
      "identify_nearest_sign_segments",
      "construct_location",
      "set_knack_user_id",
      "set_knack_work_order_attributes",
      "create_knack_work_order_payload",
      "create_knack_work_order",
      "create_knack_signs_payload",
      "prepare_agol_work_order_edits",
      "update_agol_work_order",
      "update_knack_signs_payload",
      "for_signs",
      "create_knack_work_order_update_payload",
      "update_hold",
      "breakpoint",
      "for_work_orders">>

step_after_in(steps, p) ==
    steps[1 + CHOOSE i \in 1..(Len(steps) - 1) : steps[i] = p]

step_after_create_first(p) == step_after_in(MainStepsCreateFirst, p)

\* mutant: the work order feature is edited after the loop over the signs
MainStepsSignsFirst ==
    <<"get_signs",
      "identify_eng_area",
      "identify_street_segments",
      "identify_nearest_sign_segments",
      "construct_location",
      "set_knack_user_id",
      "set_knack_work_order_attributes",
      "create_knack_work_order_payload",
      "create_knack_signs_payload",
      "create_knack_work_order",
      "prepare_agol_work_order_edits",
      "update_knack_signs_payload",
      "for_signs",
      "update_agol_work_order",
      "create_knack_work_order_update_payload",
      "update_hold",
      "breakpoint",
      "for_work_orders">>

step_after_signs_first(p) == step_after_in(MainStepsSignsFirst, p)

\* mutant: the payloads of the signs are sent as they were built
step_after_no_parent(p) ==
    IF p = "update_agol_work_order" THEN "for_signs" ELSE step_after_in(MainSteps, p)

\* the statement that follows statement p
step_after(p) == step_after_in(MainSteps, p)

\* the statements of the body of the loop over the signs (lines 457-464)
SignSteps ==
    <<"for_signs",
      "create_sign_record",
      "update_sign_attributes_with_knack_record_data",
      "update_agol_sign",
      "for_signs">>

\* mutant: the record of a sign is not followed by its write-back
sign_step_after_no_write_back(p) ==
    IF p = "create_sign_record" THEN "for_signs" ELSE "create_sign_record"

sign_step_after(p) == SignSteps[1 + CHOOSE i \in 1..(Len(SignSteps) - 1) : SignSteps[i] = p]

\* config.FIELD_MAP: the Knack field of each AGOL attribute, per Knack object
FIELD_MAP ==
    [work_orders |->
        [REQUESTER |-> "field_3201",
         LOCATION_TYPE |-> "field_3202",
         CREATED_BY_API |-> "field_3203",
         HOLD_OTHER |-> "field_3204",
         HOLD_OTHER_REASON |-> "field_3205",
         CREATED_BY |-> "field_3206",
         MODIFIED_BY |-> "field_3207",
         WORK_AREA |-> "field_3208",
         GENERATED_LOCATION_FROM_API |-> "field_3209",
         LOCATION_STREET_SEGMENT_ID_REFERENCE |-> "field_3210"],
     signs_locations |->
        [SIGNS_LOCATION |-> "field_3301",
         ENGINEER_NOTE |-> "field_3302",
         CREATED_BY |-> "field_3303",
         MODIFIED_BY |-> "field_3304",
         GLOBALID |-> "field_3305"]]

\* the Knack accounts app.get returns, as get_user_index indexes them
user_index == [e \in {"john.clary@austintexas.gov"} |-> "5e1f0a"]

\* dict.get(key)
dict_get(d, key) == IF key \in DOMAIN d THEN Str(d[key]) ELSE None

\* the editors of the work order features
Editors == {"ATD_Publisher", "Jane.Doe@austintexas.gov_austin"}
Editor(w) == IF w % 2 = 1 THEN "ATD_Publisher" ELSE "Jane.Doe@austintexas.gov_austin"

\* lines 67-72, on Editors
parse_editor_name(agol_editor_value) ==
    CASE agol_editor_value = "ATD_Publisher" -> "john.clary@austintexas.gov"
      [] agol_editor_value = "Jane.Doe@austintexas.gov_austin" -> "jane.doe@austintexas.gov"

\* the first of the keys of field_map that data lacks, if any
map_fields(data, field_map) ==
    IF \E k \in DOMAIN field_map : k \notin DOMAIN data
    THEN Raised("KeyError", CHOOSE k \in DOMAIN field_map : k \notin DOMAIN data)
    ELSE Returned([f \in {field_map[k] : k \in DOMAIN field_map} |->
                      data[CHOOSE k \in DOMAIN field_map : field_map[k] = f]])

\* the record Knack answers a create request with: its id is new, and is
\* told here by the run r and the feature (OBJECTID) the record is created
\* for, of which a run creates at most one
knack_id(r, objectid) == Str("rec-" \o ToString(r) \o "-" \o ToString(objectid))
knack_work_order_record(r, objectid) ==
    [id |-> knack_id(r, objectid),
     field_3214 |-> Str("WRK-" \o ToString(r) \o "-" \o ToString(objectid)),
     field_3265 |-> Str("ON HOLD")]
knack_location_record(r, objectid) ==
    [id |-> knack_id(r, objectid),
     field_3297 |-> Str("LOC-" \o ToString(r) \o "-" \o ToString(objectid))]

\* the attributes of the sign features (out_fields "*"); one carries an
\* instruction the job does not know, one lacks a field of the field map
InstallSign ==
    [INSTRUCTIONS |-> Str("INSTALL"),
     COMMENTS |-> None,
     CURRENT_SPEED_LIMIT |-> Num(30),
     FUTURE_SPEED_LIMIT |-> Num(25),
     CUSTOM_SIGN |-> None,
     SIGN_TYPE |-> Str("24x30"),
     GLOBALID |-> Str("7c1e")]
RelocateSign == [InstallSign EXCEPT !.INSTRUCTIONS = Str("RELOCATE")]
UnmappedSign == [k \in DOMAIN InstallSign \ {"GLOBALID"} |-> InstallSign[k]]
SignKinds == {InstallSign, RelocateSign, UnmappedSign}

sign_feature(w, k, kind, knack_fields) ==
    [geometry |-> [x |-> 0, y |-> 0],
     attributes |-> [OBJECTID |-> SignId(w, k)] @@ kind @@ knack_fields,
     knack_payload |-> None,
     knack_record |-> None]

\* what the query of the sign layer may return for work order w
SignResults(w, in_agol) ==
    {[k \in 1..m |-> sign_feature(w, k, kinds[k], in_agol[SignId(w, k)])] :
        m \in 0..MaxWorkOrderSigns, kinds \in [1..MaxWorkOrderSigns -> SignKinds]}

\* what the query of the street segment layer may return
SegmentResults ==
    {<<>>,
     <<Segment(1, "OAK ST", <<1210, 1240>>), Segment(0, "MAIN ST", <<500, 650>>)>>}

\* the engineer areas that hold the centre of a work order: none for some
EngAreaResults(w) == IF w % 2 = 1 THEN <<>> ELSE <<Str("CENTRAL")>>

work_order_feature(w, valid, in_agol) ==
    [geometry |-> [valid |-> valid],
     attributes |-> [OBJECTID |-> w, Editor |-> Editor(w)] @@ in_agol[w]]

\* one accepted write, as the services saw it; run and wo tell the run of
\* main and the work order at hand that made it
write(sys, method, obj, r, w, sign, id, parent) ==
    [sys |-> sys, method |-> method, obj |-> obj, run |-> r, wo |-> w,
     sign |-> sign, id |-> id, parent |-> parent]

\* mutant: a work order without signs is processed like the others
after_get_signs_no_check(fs, p) == step_after(p)

\* lines 419-427: a work order without signs is skipped
after_get_signs(fs, p) == IF fs = <<>> THEN "for_work_orders" ELSE step_after(p)

\* mutant: the message does not tell the work order
no_segments_error_anonymous(objectid) ==
    Raised("ValueError", "No street segments found at work order location")

\* lines 169-172
no_segments_error(objectid) ==
    Raised("ValueError",
           "No street segments found at work order location: " \o ToString(objectid))

(***************************************************************************)
(* Function runs: one call of a module-level function                      *)
(***************************************************************************)

NoWorkOrder ==
    /\ signs = <<>>
    /\ street_segments = <<>>
    /\ sign_segments = <<>>
    /\ knack_payload = None
    /\ knack_record = None

NoRun ==
    /\ run = 0
    /\ work_orders = <<>>
    /\ wo_i = 0
    /\ sign_i = 0

\* AGOL before the job ever ran: no feature carries a Knack id
NoWrites ==
    /\ writes = <<>>
    /\ agol_work_orders = [w \in WorkOrderIds |-> NoWorkOrderKnackFields]
    /\ agol_signs = [s \in SignIds |-> NoSignKnackFields]

InitFunctions ==
    /\ pc = "call"
    /\ arg \in NearestArgs \cup BlockRangeArgs \cup NoteArgs
    /\ ret = Returned(None)
    /\ NoWorkOrder
    /\ attributes = [OBJECTID |-> 0]
    /\ NoRun
    /\ NoWrites

Return(r) ==
    /\ ret' = r
    /\ pc' = IF r.raised THEN "raised" ELSE "return"
    /\ UNCHANGED <<arg, wo_vars, main_vars, ext_vars>>

call_find_nearest_feature ==
    /\ pc = "call"
    /\ arg.fn = "find_nearest_feature"
    /\ Return(Returned(find_nearest_feature(arg.input_feature, arg.search_features)))

call_block_range ==
    /\ pc = "call"
    /\ arg.fn = "block_range"
    /\ Return(block_range(arg.segments))

call_construct_engineer_note ==
    /\ pc = "call"
    /\ arg.fn = "construct_engineer_note"
    /\ Return(construct_engineer_note(arg.data))

NextFunctions ==
    \/ call_find_nearest_feature
    \/ call_block_range
    \/ call_construct_engineer_note

SpecFunctions == InitFunctions /\ [][NextFunctions]_vars

(***************************************************************************)
(* The location methods of WorkOrder                                       *)
(***************************************************************************)

\* mutant: a sign without a nearest segment gets no entry
nearest_sign_segments_matched_only(sgs, segs) ==
    SelectSeq([i \in DOMAIN sgs |-> find_nearest_feature(sgs[i], segs)[1]],
              LAMBDA f : f # None)

\* lines 174-182
nearest_sign_segments(sgs, segs) ==
    [i \in DOMAIN sgs |-> find_nearest_feature(sgs[i], segs)[1]]

wo_identify_nearest_sign_segments ==
    /\ pc = "identify_nearest_sign_segments"
    /\ sign_segments' = nearest_sign_segments(signs, street_segments)
    /\ pc' = step_after(pc)
    /\ UNCHANGED <<arg, ret, signs, street_segments, attributes, knack_payload,
                   knack_record, main_vars, ext_vars>>

wo_construct_location ==
    /\ pc = "construct_location"
    /\ LET r == construct_location(sign_segments)
       IN  IF r.raised
           THEN /\ Raise(r)
                /\ UNCHANGED attributes
           ELSE /\ pc' = step_after(pc)
                /\ attributes' = r.value @@ attributes
                /\ UNCHANGED ret
    /\ UNCHANGED <<arg, signs, street_segments, sign_segments, knack_payload,
                   knack_record, main_vars, ext_vars>>

\* what sign_segments holds before the call: nothing, or the list an earlier
\* call of identify_nearest_sign_segments left on the object
EarlierSignSegments == {<<>>, <<None>>}

\* Location runs: the two methods on one work order with any signs and segments
InitLocation ==
    /\ pc = "identify_nearest_sign_segments"
    /\ arg = None
    /\ ret = Returned(None)
    /\ signs \in {[i \in DOMAIN xs |-> PointFeature(xs[i], i)] :
                     xs \in SeqsOf(Coords, 0, MaxSigns)}
    /\ street_segments \in SeqsOf(Segments, 0, MaxSegments)
    /\ sign_segments \in EarlierSignSegments
    /\ attributes = [OBJECTID |-> 1]
    /\ knack_payload = None
    /\ knack_record = None
    /\ NoRun
    /\ NoWrites

NextLocation ==
    \/ wo_identify_nearest_sign_segments
    \/ wo_construct_location

SpecLocation == InitLocation /\ [][NextLocation]_vars

(***************************************************************************)
(* main and the other methods of WorkOrder                                 *)
(***************************************************************************)

Init ==
    /\ pc = "idle"
    /\ arg = None
    /\ ret = Returned(None)
    /\ NoWorkOrder
    /\ attributes = [OBJECTID |-> 0]
    /\ NoRun
    /\ NoWrites

ResetWorkOrder ==
    /\ signs' = <<>>
    /\ street_segments' = <<>>
    /\ sign_segments' = <<>>
    /\ knack_payload' = None
    /\ knack_record' = None

\* the process starts: python new_work_orders_to_knack.py (lines 475-477)
StartRun ==
    /\ run' = run + 1
    /\ pc' = "main"
    /\ ret' = Returned(None)
    /\ work_orders' = <<>>
    /\ wo_i' = 0
    /\ sign_i' = 0
    /\ ResetWorkOrder
    /\ attributes' = [OBJECTID |-> 0]
    /\ writes' = <<>>
    /\ UNCHANGED <<arg, agol_work_orders, agol_signs>>

\* the job is run
main_start ==
    /\ pc = "idle"
    /\ StartRun

\* the job is run again, after a run that ended or crashed
main_restart ==
    /\ pc \in {"done", "crashed"}
    /\ run < MaxRuns
    /\ StartRun

\* mutant: only the geometry of the first feature is validated before the loop
geometries_valid_first_only(features) ==
    features = <<>> \/ features[1].geometry.valid

\* line 415 with lines 110-115 and 27-37: the list comprehension builds a
\* WorkOrder of every feature, and each constructor calls create_geom_filter,
\* which asserts geom.is_valid()
geometries_valid(features) ==
    \A i \in DOMAIN features : features[i].geometry.valid

\* lines 395-415: the work orders to process, the Knack accounts, the
\* WorkOrder objects, whose constructor validates the geometry (lines 110-115,
\* 27-37)
main_setup ==
    /\ pc = "main"
    /\ \E n \in 0..MaxWorkOrders, accounts_fetched \in BOOLEAN :
       \E valid \in [1..n -> BOOLEAN] :
           LET wo_feature_set ==
                   [i \in 1..n |-> work_order_feature(i, valid[i], agol_work_orders)]
           IN  IF n = 0
               THEN /\ pc' = "done"
                    /\ UNCHANGED <<ret, work_orders>>
               ELSE IF ~accounts_fetched
               THEN /\ Raise(Raised("HTTPError", "get object accounts"))
                    /\ UNCHANGED work_orders
               ELSE IF ~geometries_valid(wo_feature_set)
               THEN /\ Raise(Raised("ValueError",
                                    "Invalid feature geometry: "
                                        \o ToString(CHOOSE i \in 1..n :
                                               ~valid[i] /\ \A j \in 1..(i - 1) : valid[j])))
                    /\ UNCHANGED work_orders
               ELSE /\ pc' = "for_work_orders"
                    /\ work_orders' = wo_feature_set
                    /\ UNCHANGED ret
    /\ UNCHANGED <<arg, wo_vars, run, wo_i, sign_i, ext_vars>>

\* line 417: the next work order, if any
main_for_work_orders ==
    /\ pc = "for_work_orders"
    /\ IF wo_i < Len(work_orders)
       THEN /\ wo_i' = wo_i + 1
            /\ pc' = "get_signs"
            /\ attributes' = work_orders[wo_i + 1].attributes
            /\ sign_i' = 0
            /\ ResetWorkOrder
       ELSE /\ pc' = "done"
            /\ UNCHANGED <<wo_i, sign_i, wo_vars>>
    /\ UNCHANGED <<arg, ret, run, work_orders, ext_vars>>

\* lines 418-425 and 125-133
wo_get_signs ==
    /\ pc = "get_signs"
    /\ \/ /\ Raise(Raised("ConnectionError", "query signs"))
          /\ UNCHANGED signs
       \/ \E fs \in SignResults(attributes.OBJECTID, agol_signs) :
              /\ signs' = fs
              /\ pc' = after_get_signs(fs, pc)
              /\ UNCHANGED ret
    /\ UNCHANGED <<arg, street_segments, sign_segments, attributes, knack_payload,
                   knack_record, main_vars, ext_vars>>

\* lines 135-157
wo_identify_eng_area ==
    /\ pc = "identify_eng_area"
    /\ \/ /\ Raise(Raised("ConnectionError", "query eng_areas"))
          /\ UNCHANGED attributes
       \/ /\ Raise(Raised("ValueError", "Invalid feature geometry: centroid"))
          /\ UNCHANGED attributes
       \/ LET wo_eng_area == EngAreaResults(attributes.OBJECTID)
          IN  /\ attributes' = [WORK_AREA |-> IF wo_eng_area = <<>>
                                               THEN None
                                               ELSE wo_eng_area[1]] @@ attributes
              /\ pc' = step_after(pc)
              /\ UNCHANGED ret
    /\ UNCHANGED <<arg, signs, street_segments, sign_segments, knack_payload,
                   knack_record, main_vars, ext_vars>>

\* lines 159-172
wo_identify_street_segments ==
    /\ pc = "identify_street_segments"
    /\ \/ /\ Raise(Raised("ConnectionError", "query street_segments"))
          /\ UNCHANGED street_segments
       \/ \E segs \in SegmentResults :
              /\ street_segments' = segs
              /\ IF segs = <<>>
                 THEN Raise(no_segments_error(attributes.OBJECTID))
                 ELSE pc' = step_after(pc) /\ UNCHANGED ret
    /\ UNCHANGED <<arg, signs, sign_segments, attributes, knack_payload,
                   knack_record, main_vars, ext_vars>>

\* lines 225-229
wo_set_knack_user_id ==
    /\ pc = "set_knack_user_id"
    /\ LET editor_email == parse_editor_name(attributes.Editor)
       IN  attributes' = [KNACK_USER_ID |-> dict_get(user_index, editor_email)] @@ attributes
    /\ pc' = step_after(pc)
    /\ UNCHANGED <<arg, ret, signs, street_segments, sign_segments, knack_payload,
                   knack_record, main_vars, ext_vars>>

\* lines 231-243
wo_set_knack_work_order_attributes ==
    /\ pc = "set_knack_work_order_attributes"
    /\ attributes' =
           [REQUESTER |-> "TRANSPORTATION ENGINEERING",
            LOCATION_TYPE |-> "Section of Road",
            CREATED_BY_API |-> TRUE,
            HOLD_OTHER |-> TRUE,
            HOLD_OTHER_REASON |-> "ArcGIS Online auto-update in progress.",
            CREATED_BY |-> <<attributes.KNACK_USER_ID>>,
            MODIFIED_BY |-> <<attributes.KNACK_USER_ID>>] @@ attributes
    /\ pc' = step_after(pc)
    /\ UNCHANGED <<arg, ret, signs, street_segments, sign_segments, knack_payload,
                   knack_record, main_vars, ext_vars>>

\* lines 245-247
wo_create_knack_work_order_payload ==
    /\ pc = "create_knack_work_order_payload"
    /\ LET r == map_fields(attributes, FIELD_MAP.work_orders)
       IN  IF r.raised
           THEN Raise(r) /\ UNCHANGED knack_payload
           ELSE /\ knack_payload' = r.value
                /\ pc' = step_after(pc)
                /\ UNCHANGED ret
    /\ UNCHANGED <<arg, signs, street_segments, sign_segments, attributes,
                   knack_record, main_vars, ext_vars>>

\* mutant: the payload of a sign is built without a look at its attributes
sign_with_payload_unchecked(sign, knack_editor_id) ==
    Returned([sign EXCEPT !.knack_payload = [field_3303 |-> <<knack_editor_id>>]])

\* lines 263-275, for one sign: the sign with its payload, or what is raised
sign_with_payload(sign, knack_editor_id) ==
    LET note == construct_engineer_note(sign.attributes)
    IN  IF note.raised
        THEN note
        ELSE LET attrs == [SIGNS_LOCATION |-> [latitude |-> sign.geometry.y,
                                               longitude |-> sign.geometry.x],
                           ENGINEER_NOTE |-> note.value,
                           CREATED_BY |-> <<knack_editor_id>>,
                           MODIFIED_BY |-> <<knack_editor_id>>] @@ sign.attributes
                 payload == map_fields(attrs, FIELD_MAP.signs_locations)
             IN  IF payload.raised
                 THEN payload
                 ELSE Returned([sign EXCEPT !.attributes = attrs,
                                            !.knack_payload = payload.value])

\* lines 259-275: the loop stops at the first sign that raises
wo_create_knack_signs_payload ==
    /\ pc = "create_knack_signs_payload"
    /\ LET r == [i \in DOMAIN signs |-> sign_with_payload(signs[i], attributes.KNACK_USER_ID)]
           bad == {i \in DOMAIN signs : r[i].raised}
       IN  IF bad # {}
           THEN LET first == CHOOSE i \in bad : \A j \in bad : i <= j
                IN  /\ Raise(r[first])
                    /\ signs' = [i \in DOMAIN signs |->
                                    IF i < first THEN r[i].value ELSE signs[i]]
           ELSE /\ signs' = [i \in DOMAIN signs |-> r[i].value]
                /\ pc' = step_after(pc)
                /\ UNCHANGED ret
    /\ UNCHANGED <<arg, street_segments, sign_segments, attributes, knack_payload,
                   knack_record, main_vars, ext_vars>>

\* lines 277-285: Knack creates the record, or the request fails
wo_create_knack_work_order ==
    /\ pc = "create_knack_work_order"
    /\ \/ /\ Raise(Raised("HTTPError", "create object_176"))
          /\ UNCHANGED <<knack_record, writes>>
       \/ /\ knack_record' = knack_work_order_record(run, attributes.OBJECTID)
          /\ writes' = Append(writes,
                 write("knack", "create", "object_176", run, attributes.OBJECTID,
                       0, knack_id(run, attributes.OBJECTID), <<>>))
          /\ pc' = step_after(pc)
          /\ UNCHANGED ret
    /\ UNCHANGED <<arg, signs, street_segments, sign_segments, attributes, knack_payload,
                   main_vars, agol_work_orders, agol_signs>>

\* lines 287-294
wo_prepare_agol_work_order_edits ==
    /\ pc = "prepare_agol_work_order_edits"
    /\ attributes' = [KNACK_WORK_ORDER_ID |-> knack_record.field_3214,
                      KNACK_RECORD_ID |-> knack_record.id,
                      WORK_ORDER_STATUS |-> knack_record.field_3265] @@ attributes
    /\ pc' = step_after(pc)
    /\ UNCHANGED <<arg, ret, signs, street_segments, sign_segments, knack_payload,
                   knack_record, main_vars, ext_vars>>

\* the attributes of a feature after an update with attribute_payload
edited(feature_fields, attribute_payload) ==
    [k \in DOMAIN feature_fields |->
        IF k \in DOMAIN attribute_payload THEN attribute_payload[k] ELSE feature_fields[k]]

\* what edit_features may answer: the edit applied ({"updateResults":
\* [{"success": True}]}), the edit refused ([{"success": False}]), an answer
\* without updateResults or that is no dict, or an answer whose updateResults
\* is an empty list
EditResults == {"success", "failure", "malformed", "empty"}

\* lines 311-317 and 357-363: assert results["updateResults"][0]["success"]
\* under except (AssertionError, KeyError, TypeError); the IndexError of an
\* empty list is none of the three
edit_error(results, msg) ==
    IF results = "empty"
    THEN Raised("IndexError", "list index out of range")
    ELSE Raised("ValueError", msg)

WORK_ORDER_FIELDS_TO_UPDATE ==
    {"OBJECTID", "KNACK_WORK_ORDER_ID", "KNACK_RECORD_ID", "WORK_ORDER_STATUS"}

\* lines 296-317
wo_update_agol_work_order ==
    /\ pc = "update_agol_work_order"
    /\ LET attribute_payload ==
               [k \in DOMAIN attributes \cap WORK_ORDER_FIELDS_TO_UPDATE |-> attributes[k]]
           w == attributes.OBJECTID
       IN  \E results \in EditResults :
               IF results = "success"
               THEN /\ agol_work_orders' =
                           [agol_work_orders EXCEPT ![w] = edited(@, attribute_payload)]
                    /\ writes' = Append(writes,
                           write("agol", "update", "work_orders", run, w, 0,
                                 attribute_payload.KNACK_RECORD_ID, <<>>))
                    /\ pc' = step_after(pc)
                    /\ UNCHANGED ret
               ELSE /\ Raise(edit_error(results,
                                         "AGOL update failed for work order: "
                                             \o format(attributes.KNACK_WORK_ORDER_ID)))
                    /\ UNCHANGED <<agol_work_orders, writes>>
    /\ UNCHANGED <<arg, wo_vars, main_vars, agol_signs>>

\* lines 365-371
wo_update_knack_signs_payload ==
    /\ pc = "update_knack_signs_payload"
    /\ LET work_order_record_id == knack_record.id
       IN  signs' = [i \in DOMAIN signs |->
                        [signs[i] EXCEPT !.knack_payload =
                            [field_3298 |-> <<work_order_record_id>>] @@ @]]
    /\ pc' = step_after(pc)
    /\ UNCHANGED <<arg, ret, street_segments, sign_segments, attributes, knack_payload,
                   knack_record, main_vars, ext_vars>>

\* line 456: the next sign, if any
main_for_signs ==
    /\ pc = "for_signs"
    /\ IF sign_i < Len(signs)
       THEN sign_i' = sign_i + 1 /\ pc' = sign_step_after(pc)
       ELSE pc' = step_after(pc) /\ UNCHANGED sign_i
    /\ UNCHANGED <<arg, ret, wo_vars, run, work_orders, wo_i, ext_vars>>

\* lines 457-462: Knack creates the record of the sign, or the request fails
main_create_sign_record ==
    /\ pc = "create_sign_record"
    /\ \/ /\ Raise(Raised("HTTPError", "create object_177"))
          /\ UNCHANGED <<signs, writes>>
       \/ LET data == signs[sign_i].knack_payload
              id == signs[sign_i].attributes.OBJECTID
          IN  /\ signs' = [signs EXCEPT ![sign_i].knack_record =
                                            knack_location_record(run, id)]
              /\ writes' = Append(writes,
                     write("knack", "create", "object_177", run, attributes.OBJECTID,
                           id, knack_id(run, id),
                           IF "field_3298" \in DOMAIN data THEN data.field_3298 ELSE <<>>))
              /\ pc' = sign_step_after(pc)
              /\ UNCHANGED ret
    /\ UNCHANGED <<arg, street_segments, sign_segments, attributes, knack_payload,
                   knack_record, main_vars, agol_work_orders, agol_signs>>

\* lines 319-334
wo_update_sign_attributes_with_knack_record_data ==
    /\ pc = "update_sign_attributes_with_knack_record_data"
    /\ signs' = [signs EXCEPT ![sign_i].attributes =
           [KNACK_WORK_ORDER_ID |-> attributes.KNACK_WORK_ORDER_ID,
            KNACK_RECORD_ID |-> attributes.KNACK_RECORD_ID,
            WORK_ORDER_STATUS |-> attributes.WORK_ORDER_STATUS,
            KNACK_LOCATION_ID |-> signs[sign_i].knack_record.field_3297,
            KNACK_LOCATION_RECORD_ID |-> signs[sign_i].knack_record.id] @@ @]
    /\ pc' = sign_step_after(pc)
    /\ UNCHANGED <<arg, ret, street_segments, sign_segments, attributes, knack_payload,
                   knack_record, main_vars, ext_vars>>

SIGN_FIELDS_TO_UPDATE ==
    {"OBJECTID", "KNACK_WORK_ORDER_ID", "KNACK_RECORD_ID", "WORK_ORDER_STATUS",
     "KNACK_LOCATION_ID", "KNACK_LOCATION_RECORD_ID"}

\* lines 336-363
wo_update_agol_sign ==
    /\ pc = "update_agol_sign"
    /\ LET sign == signs[sign_i]
           attribute_payload ==
               [k \in DOMAIN sign.attributes \cap SIGN_FIELDS_TO_UPDATE |-> sign.attributes[k]]
       IN  \E results \in EditResults :
               IF results = "success"
               THEN /\ agol_signs' =
                           [agol_signs EXCEPT ![sign.attributes.OBJECTID] =
                               edited(@, attribute_payload)]
                    /\ writes' = Append(writes,
                           write("agol", "update", "signs", run, attributes.OBJECTID,
                                 sign.attributes.OBJECTID,
                                 attribute_payload.KNACK_LOCATION_RECORD_ID, <<>>))
                    /\ pc' = sign_step_after(pc)
                    /\ UNCHANGED ret
               ELSE /\ Raise(edit_error(results,
                                         "AGOL update failed for location: "
                                             \o format(attribute_payload.KNACK_LOCATION_ID)))
                    /\ UNCHANGED <<agol_signs, writes>>
    /\ UNCHANGED <<arg, wo_vars, main_vars, agol_work_orders>>

\* lines 249-257
wo_create_knack_work_order_update_payload ==
    /\ pc = "create_knack_work_order_update_payload"
    /\ LET hold_reason == "Waiting for DIGTESS"
           knack_hold_reason_field_id == FIELD_MAP.work_orders.HOLD_OTHER_REASON
       IN  knack_payload' = [k \in {"id", knack_hold_reason_field_id} |->
                                IF k = "id" THEN format(knack_record.id) ELSE hold_reason]
    /\ pc' = step_after(pc)
    /\ UNCHANGED <<arg, ret, signs, street_segments, sign_segments, attributes,
                   knack_record, main_vars, ext_vars>>

\* lines 468-470: Knack updates the record, or the request fails
main_update_hold ==
    /\ pc = "update_hold"
    /\ \/ /\ Raise(Raised("HTTPError", "update object_176"))
          /\ UNCHANGED writes
       \/ /\ writes' = Append(writes,
                 write("knack", "update", "object_176", run, attributes.OBJECTID,
                       0, knack_record.id, <<>>))
          /\ pc' = step_after(pc)
          /\ UNCHANGED ret
    /\ UNCHANGED <<arg, wo_vars, main_vars, agol_work_orders, agol_signs>>

\* line 471: the debugger stops the run; it goes on when told to continue and
\* ends with BdbQuit when told to quit or when there is no input to read
main_breakpoint ==
    /\ pc = "breakpoint"
    /\ \/ Raise(Raised("BdbQuit", ""))
       \/ pc' = step_after(pc) /\ UNCHANGED ret
    /\ UNCHANGED <<arg, wo_vars, main_vars, ext_vars>>

Next ==
    \/ main_start
    \/ main_setup
    \/ main_for_work_orders
    \/ wo_get_signs
    \/ wo_identify_eng_area
    \/ wo_identify_street_segments
    \/ wo_identify_nearest_sign_segments
    \/ wo_construct_location
    \/ wo_set_knack_user_id
    \/ wo_set_knack_work_order_attributes
    \/ wo_create_knack_work_order_payload
    \/ wo_create_knack_signs_payload
    \/ wo_create_knack_work_order
    \/ wo_prepare_agol_work_order_edits
    \/ wo_update_agol_work_order
    \/ wo_update_knack_signs_payload
    \/ main_for_signs
    \/ main_create_sign_record
    \/ wo_update_sign_attributes_with_knack_record_data
    \/ wo_update_agol_sign
    \/ wo_create_knack_work_order_update_payload
    \/ main_update_hold
    \/ main_breakpoint

Spec == Init /\ [][Next]_vars

\* any number of runs, one after the other
NextRerun ==
    \/ Next
    \/ main_restart

SpecRerun == Init /\ [][NextRerun]_vars

(***************************************************************************)
(* Properties of the functions                                             *)
(***************************************************************************)

AbsDiff(a, b) == IF a >= b THEN a - b ELSE b - a

\* C1: for a non-empty list of candidates find_nearest_feature returns a
\* candidate at least as near to the target as every other candidate, with
\* that distance; of several candidates at the least distance it returns the
\* one of smallest index.
C1_NearestIsFirstMinimum ==
    (pc = "return" /\ arg.fn = "find_nearest_feature" /\ arg.search_features # <<>>) =>
        LET c == arg.search_features
            d(i) == AbsDiff(c[i].geometry.x, arg.input_feature.geometry.x)
        IN  \E i \in DOMAIN c :
                /\ ret.value[1] = c[i]
                /\ ret.value[2] = d(i)
                /\ \A j \in DOMAIN c : d(i) <= d(j)
                /\ \A j \in DOMAIN c : j < i => d(j) > d(i)

\* a call returned the second of three candidates, the third being as near
C1_Witness ==
    /\ pc = "return"
    /\ arg.fn = "find_nearest_feature"
    /\ Len(arg.search_features) = 3
    /\ ret.value[1] = arg.search_features[2]
    /\ AbsDiff(arg.search_features[3].geometry.x, arg.input_feature.geometry.x) = ret.value[2]
    /\ AbsDiff(arg.search_features[1].geometry.x, arg.input_feature.geometry.x) > ret.value[2]

\* C2: for a non-empty list of segments block_range returns <<start, end>>,
\* start the largest multiple of 100 not above the least LEFT_BLOCK_FROM and
\* end the smallest multiple of 100 not below the greatest LEFT_BLOCK_TO;
\* (1210, 1240) gives (1200, 1300).
C2_BlockRangeRounds ==
    (pc \in {"return", "raised"} /\ arg.fn = "block_range" /\ arg.segments # <<>>) =>
        LET segs == arg.segments
            froms == {segs[i].attributes.LEFT_BLOCK_FROM : i \in DOMAIN segs}
            tos == {segs[i].attributes.LEFT_BLOCK_TO : i \in DOMAIN segs}
            lo == CHOOSE m \in froms : \A n \in froms : m <= n
            hi == CHOOSE m \in tos : \A n \in tos : m >= n
            start == ret.value[1]
            end == ret.value[2]
        IN  /\ ~ret.raised
            /\ start % 100 = 0
            /\ start <= lo
            /\ lo < start + 100
            /\ end % 100 = 0
            /\ end >= hi
            /\ hi > end - 100
            /\ (froms = {1210} /\ tos = {1240}) => (start = 1200 /\ end = 1300)

\* the range of two segments, the second holding the least and the greatest number
C2_Witness ==
    /\ pc = "return"
    /\ arg.fn = "block_range"
    /\ arg.segments = <<BlockSegment(1210, 99), BlockSegment(-50, 1240)>>
    /\ ret.value = <<-100, 1300>>

\* C5: the note of a REMOVE holds neither the future speed limit line nor the
\* size line; the note of an INSTALL or a REPLACE holds both; any other
\* INSTRUCTIONS value gives no note but an error naming the value.
C5_NoteLines ==
    (pc \in {"return", "raised"} /\ arg.fn = "construct_engineer_note") =>
        LET d == arg.data
            future == "Speed limit: " \o format(d.FUTURE_SPEED_LIMIT) \o "\n"
            size == "Size: " \o format(d.SIGN_TYPE) \o "\n"
        IN  IF d.INSTRUCTIONS = Str("REMOVE")
            THEN ~ret.raised /\ future \notin Range(ret.value) /\ size \notin Range(ret.value)
            ELSE IF d.INSTRUCTIONS \in {Str("INSTALL"), Str("REPLACE")}
            THEN ~ret.raised /\ future \in Range(ret.value) /\ size \in Range(ret.value)
            ELSE /\ ret.raised
                 /\ ret.msg = "Unknown INSTRUCTIONS value for sign feature: "
                                 \o format(d.INSTRUCTIONS)

\* the note of a removal with a comment
C5_Witness ==
    /\ pc = "return"
    /\ arg.fn = "construct_engineer_note"
    /\ arg.data.INSTRUCTIONS = Str("REMOVE")
    /\ ret.value = <<"Action: REMOVE\n", "Speed Limit: 30\n", "Note: see plan\n">>

(***************************************************************************)
(* Properties of the location                                              *)
(***************************************************************************)

NameAt(i) == sign_segments[i].attributes.FULL_STREET_NAME
CountOf(n) == Cardinality({i \in DOMAIN sign_segments : NameAt(i) = n})
FirstOf(n) == CHOOSE i \in DOMAIN sign_segments :
                  NameAt(i) = n /\ \A j \in DOMAIN sign_segments : NameAt(j) = n => i <= j

\* n has the highest count, and of the names of that count the earliest first occurrence
IsSelected(n) ==
    /\ \E i \in DOMAIN sign_segments : NameAt(i) = n
    /\ \A j \in DOMAIN sign_segments :
           \/ CountOf(NameAt(j)) < CountOf(n)
           \/ CountOf(NameAt(j)) = CountOf(n) /\ FirstOf(n) <= FirstOf(NameAt(j))

Hundreds == {100 * k : k \in 0..20}

\* C3: the street name construct_location selects has the highest count among
\* the matched segments, and of several names of that count it is the one
\* that comes first in sign order.
C3_SelectedName ==
    (pc = "set_knack_user_id") =>
        \E n \in StreetNames :
            /\ IsSelected(n)
            /\ \E s \in Hundreds :
                   \/ attributes.GENERATED_LOCATION_FROM_API = ToString(s) \o " BLK " \o n
                   \/ \E e \in Hundreds :
                          attributes.GENERATED_LOCATION_FROM_API
                              = ToString(s) \o "-" \o ToString(e) \o " " \o n

\* two names matched once each, the alphabetically later one first
C3_Witness ==
    /\ pc = "set_knack_user_id"
    /\ Len(sign_segments) = 2
    /\ NameAt(1) = "OAK ST"
    /\ NameAt(2) = "MAIN ST"
    /\ attributes.GENERATED_LOCATION_FROM_API = "1200 BLK OAK ST"

\* C4: the location is "{start} BLK {name}" exactly when one matched segment
\* (one entry per sign) has the selected name, and "{start}-{end} {name}"
\* otherwise, (start, end) being the block range of the matched segments of
\* that name.
C4_LocationFormat ==
    (pc = "set_knack_user_id") =>
        \E n \in StreetNames :
            /\ IsSelected(n)
            /\ LET subset == SelectSeq(sign_segments,
                                       LAMBDA s : s.attributes.FULL_STREET_NAME = n)
                   blk == block_range(subset).value
               IN  attributes.GENERATED_LOCATION_FROM_API =
                       IF Len(subset) = 1
                       THEN ToString(blk[1]) \o " BLK " \o n
                       ELSE ToString(blk[1]) \o "-" \o ToString(blk[2]) \o " " \o n

\* two signs matched to two streets: the single-segment form of the first
C4_Witness ==
    /\ pc = "set_knack_user_id"
    /\ Len(sign_segments) = 2
    /\ NameAt(1) = "MAIN ST"
    /\ NameAt(2) = "OAK ST"
    /\ attributes.GENERATED_LOCATION_FROM_API = "500 BLK MAIN ST"


(***************************************************************************)
(* Properties of main                                                      *)
(***************************************************************************)

\* the writes of this run for the work order at hand
WritesOfWorkOrder ==
    SelectSeq(writes, LAMBDA e : e.run = run /\ e.wo = attributes.OBJECTID)

IsWorkOrderRecord(e) == e.sys = "knack" /\ e.method = "create" /\ e.obj = "object_176"

\* C6: a work order feature that carries a Knack record id in AGOL is never
\* given a second Knack record, in whatever run of main.
C6_NoSecondRecord ==
    [][\A w \in WorkOrderIds :
           (/\ agol_work_orders[w].KNACK_RECORD_ID # None
            /\ Len(writes') = Len(writes) + 1)
               => ~(IsWorkOrderRecord(writes'[Len(writes')]) /\ writes'[Len(writes')].wo = w)]_vars

\* C7: a work order whose sign query returns no sign is skipped: none of its
\* later steps runs, nothing is written for it, and the loop goes on with the
\* next work order.
C7_SkippedWithoutSigns ==
    /\ [](pc \in (Range(MainSteps) \cup Range(SignSteps)) \ {"get_signs", "for_work_orders"}
             => signs # <<>>)
    /\ [][/\ (pc = "get_signs" /\ ~ret'.raised /\ signs' = <<>>)
              => (pc' = "for_work_orders" /\ UNCHANGED ext_vars)
          /\ (pc = "for_work_orders" /\ wo_i >= 1 /\ signs = <<>>)
              => /\ UNCHANGED ext_vars
                 /\ IF wo_i < Len(work_orders)
                    THEN wo_i' = wo_i + 1 /\ pc' = "get_signs"
                    ELSE pc' = "done"
          /\ (pc' # "main" /\ ext_vars' # ext_vars) => signs # <<>>]_vars

\* the first work order was passed without a write, the second one written
C7_Witness ==
    /\ run = 1
    /\ wo_i = 2
    /\ writes # <<>>
    /\ \A i \in DOMAIN writes : writes[i].wo = 2

\* a step of identify_street_segments whose query answers with no segment
NoSegmentsStep ==
    /\ pc = "identify_street_segments"
    /\ pc' # pc
    /\ street_segments' = <<>>
    /\ ~(ret'.raised /\ ret'.exc = "ConnectionError")

NamesWorkOrder(e) ==
    /\ e.raised
    /\ e.exc = "ValueError"
    /\ e.msg = "No street segments found at work order location: "
                   \o ToString(attributes.OBJECTID)

\* C8 as stated: without street segments the work order fails with an error
\* that names it, no record is created for it, and the batch goes on with the
\* next work order.
C8_BatchContinues ==
    [][NoSegmentsStep =>
           /\ NamesWorkOrder(ret')
           /\ UNCHANGED ext_vars
           /\ pc' = "for_work_orders"]_vars

\* C8 amended: without street segments the work order fails with an error that
\* names it, no record is created for it, and the run ends there: the next
\* step, if any, is the start of another run.
C8_NoSegmentsEndsRun ==
    [][/\ NoSegmentsStep =>
              /\ NamesWorkOrder(ret')
              /\ UNCHANGED ext_vars
              /\ WritesOfWorkOrder = <<>>
              /\ pc' = "crashed"
       /\ (pc = "identify_street_segments" /\ pc' = "identify_nearest_sign_segments")
              => street_segments' # <<>>
       /\ (pc = "crashed" /\ ret.at = "identify_street_segments")
              => (pc' = "main" /\ run' = run + 1)]_vars

\* the first of two work orders failed for want of street segments
C8_Witness ==
    /\ pc = "crashed"
    /\ ret.at = "identify_street_segments"
    /\ ret.exc = "ValueError"
    /\ wo_i = 1
    /\ Len(work_orders) = 2
    /\ street_segments = <<>>

\* C9: an exception raised by a step of a work order is not caught: the run
\* ends there, and no step of a later work order of the batch is executed.
C9_ErrorEndsRun ==
    /\ [](ret.raised => pc = "crashed")
    /\ [][ret.raised => (pc' = "main" /\ run' = run + 1)]_vars

\* the write-back of the first of two work orders failed
C9_Witness ==
    /\ pc = "crashed"
    /\ ret.at = "update_agol_work_order"
    /\ wo_i = 1
    /\ Len(work_orders) = 2

\* C10 as stated: when the processing of a work order fails, at whatever
\* step, neither service holds a write made for it.
C10_NoPartialCommit ==
    (pc = "crashed" /\ wo_i >= 1) => WritesOfWorkOrder = <<>>

BeforeRecord ==
    {"get_signs", "identify_eng_area", "identify_street_segments",
     "identify_nearest_sign_segments", "construct_location", "set_knack_user_id",
     "set_knack_work_order_attributes", "create_knack_work_order_payload",
     "create_knack_signs_payload", "create_knack_work_order"}

\* C10 amended: a work order that fails before its record is created, or in
\* the request that creates it, leaves no write in either service; one that
\* fails at a later step leaves in place what was written until then, first
\* of all its Knack record.
C10_CommitUpToFailure ==
    (pc = "crashed" /\ wo_i >= 1) =>
        IF ret.at \in BeforeRecord
        THEN WritesOfWorkOrder = <<>>
        ELSE /\ WritesOfWorkOrder # <<>>
             /\ IsWorkOrderRecord(WritesOfWorkOrder[1])
             /\ ret.at = "update_agol_work_order" => Len(WritesOfWorkOrder) = 1

\* the second work order failed on the payload of a sign; the first is written
C10_Witness ==
    /\ pc = "crashed"
    /\ ret.at = "create_knack_signs_payload"
    /\ wo_i = 2
    /\ writes # <<>>

(***************************************************************************)
(* Properties of the write-back and of the order of the writes             *)
(***************************************************************************)

IsSignRecord(e) == e.sys = "knack" /\ e.method = "create" /\ e.obj = "object_177"
IsHoldUpdate(e) == e.sys = "knack" /\ e.method = "update" /\ e.obj = "object_176"
IsWorkOrderEdit(e) == e.sys = "agol" /\ e.method = "update" /\ e.obj = "work_orders"
IsSignEdit(e) == e.sys = "agol" /\ e.method = "update" /\ e.obj = "signs"

\* C11: when the answer to the edit of the work order feature does not report
\* success, update_agol_work_order raises an error that names the Knack work
\* order, and neither a sign record nor a hold update is written for it.
C11_WriteBackVerified ==
    /\ [][(pc = "update_agol_work_order" /\ pc' = "crashed") =>
              /\ ret'.exc = "ValueError"
              /\ ret'.msg = "AGOL update failed for work order: "
                                \o format(attributes.KNACK_WORK_ORDER_ID)
              /\ UNCHANGED ext_vars]_vars
    /\ [](pc = "crashed" /\ ret.at = "update_agol_work_order" =>
              \A i \in DOMAIN WritesOfWorkOrder :
                  /\ ~IsSignRecord(WritesOfWorkOrder[i])
                  /\ ~IsHoldUpdate(WritesOfWorkOrder[i]))

\* the writes of this run that concern the sign with this OBJECTID
WritesOfSign(id) == SelectSeq(writes, LAMBDA e : e.run = run /\ e.sign = id)

\* C12: when the creation or the write-back of the k-th sign fails, the record
\* and the cross-reference of the work order and of the signs 1..k-1 are in
\* place, nothing is written for the signs after the k-th, and no hold update
\* is written for the work order.
C12_NoSignRollback ==
    (pc = "crashed" /\ ret.at \in {"create_sign_record", "update_agol_sign"}) =>
        LET w == attributes.OBJECTID
            k == sign_i
            W == WritesOfWorkOrder
            id(j) == signs[j].attributes.OBJECTID
        IN  /\ IsWorkOrderRecord(W[1]) /\ W[1].id = knack_record.id
            /\ IsWorkOrderEdit(W[2])
            /\ agol_work_orders[w].KNACK_RECORD_ID = knack_record.id
            /\ \A j \in 1..(k - 1) :
                   /\ \E i \in DOMAIN W :
                          /\ IsSignRecord(W[i])
                          /\ W[i].sign = id(j)
                          /\ W[i].id = signs[j].knack_record.id
                   /\ agol_signs[id(j)].KNACK_LOCATION_RECORD_ID = signs[j].knack_record.id
                   /\ agol_signs[id(j)].KNACK_RECORD_ID = knack_record.id
            /\ agol_signs[id(k)] = NoSignKnackFields
            /\ (\E i \in DOMAIN W : IsSignRecord(W[i]) /\ W[i].sign = id(k))
                   <=> ret.at = "update_agol_sign"
            /\ \A j \in (k + 1)..Len(signs) :
                   /\ WritesOfSign(id(j)) = <<>>
                   /\ agol_signs[id(j)] = NoSignKnackFields
            /\ \A i \in DOMAIN W : ~IsHoldUpdate(W[i])

\* the write-back of the second of three signs failed
C12_Witness ==
    /\ pc = "crashed"
    /\ ret.at = "update_agol_sign"
    /\ sign_i = 2
    /\ Len(signs) = 3

(***************************************************************************)
(* Further properties of the location methods and of the functions         *)
(***************************************************************************)

\* no sign was matched to a segment: the list is empty or holds None only
NothingMatched == \A i \in DOMAIN sign_segments : sign_segments[i] = None

\* the errors the interpreter raises for an operation it cannot do, which tell
\* neither the work order nor what its data lack
InterpreterErrors ==
    {Raised("ValueError", "max() arg is an empty sequence"),
     Raised("ValueError", "min() arg is an empty sequence"),
     Raised("AttributeError", "'NoneType' object has no attribute 'attributes'")}

\* C13: with no matched segment construct_location fails with an error of its
\* own that describes the failure, and stores neither a location nor a
\* reference segment id.
C13_FailsDescriptively ==
    /\ (pc = "set_knack_user_id") => ~NothingMatched
    /\ (pc = "crashed" /\ ret.at = "construct_location" /\ NothingMatched) =>
           /\ [raised |-> TRUE, exc |-> ret.exc, msg |-> ret.msg] \notin InterpreterErrors
           /\ "GENERATED_LOCATION_FROM_API" \notin DOMAIN attributes
           /\ "LOCATION_STREET_SEGMENT_ID_REFERENCE" \notin DOMAIN attributes

\* C14: find_nearest_feature called with no candidate returns (None, inf) and
\* raises nothing, whatever the target.
C14_NearestOfNone ==
    (pc # "call" /\ arg.fn = "find_nearest_feature" /\ arg.search_features = <<>>) =>
        /\ pc = "return"
        /\ ret = Returned(<<None, INF>>)

\* a call with no candidate has returned
C14_Witness ==
    /\ pc = "return"
    /\ arg.fn = "find_nearest_feature"
    /\ arg.search_features = <<>>
    /\ arg.input_feature.geometry.x = 2

(***************************************************************************)
(* The order of the writes of a run                                        *)
(***************************************************************************)

\* the writes of this run for work order w, in the order they were made
WritesFor(w) == SelectSeq(writes, LAMBDA e : e.wo = w)

\* C15: the writes of a run come work order by work order, in the order of the
\* query: a work order is written only when each one before it was skipped or
\* written to its end. The writes of one work order are its record, then the
\* edit of its feature, then for each sign in query order the record of the
\* sign followed by the edit of the sign, then the hold update.
C15_WritesInOrder ==
    /\ \A i, j \in DOMAIN writes : i < j => writes[i].wo <= writes[j].wo
    /\ \A i, j \in DOMAIN writes :
           writes[i].wo < writes[j].wo =>
               IsHoldUpdate(WritesFor(writes[i].wo)[Len(WritesFor(writes[i].wo))])
    /\ \A w \in WorkOrderIds :
           LET W == WritesFor(w)
           IN  \A i \in DOMAIN W :
                   \/ i = 1 /\ IsWorkOrderRecord(W[i])
                   \/ i = 2 /\ IsWorkOrderEdit(W[i])
                   \/ /\ i > 2 /\ i % 2 = 1
                      /\ \/ IsSignRecord(W[i]) /\ W[i].sign = SignId(w, (i - 1) \div 2)
                         \/ IsHoldUpdate(W[i]) /\ i = Len(W)
                   \/ /\ i > 2 /\ i % 2 = 0
                      /\ IsSignEdit(W[i]) /\ W[i].sign = SignId(w, (i - 2) \div 2)

\* both work orders were written, the first with two signs
C15_Witness ==
    /\ pc = "done"
    /\ Len(WritesFor(1)) = 7
    /\ Len(WritesFor(2)) >= 5

\* the hold update is written at most once, after the edit of the last sign
HoldUpdateIsLast ==
    \A i \in DOMAIN WritesOfWorkOrder :
        IsHoldUpdate(WritesOfWorkOrder[i]) =>
            /\ i = 2 * Len(signs) + 3
            /\ i = Len(WritesOfWorkOrder)
            /\ \A k \in DOMAIN signs :
                   /\ IsSignRecord(WritesOfWorkOrder[2 * k + 1])
                   /\ IsSignEdit(WritesOfWorkOrder[2 * k + 2])

\* a work order whose writes all succeeded gets its hold update: the request
\* is made once the loop over the signs has ended, and a work order is left
\* behind by the loop only if it was skipped or has its hold update
HoldUpdateIsIssued ==
    /\ (pc \in {"create_knack_work_order_update_payload", "update_hold"}) =>
           /\ Len(WritesOfWorkOrder) = 2 * Len(signs) + 2
           /\ sign_i = Len(signs)
    /\ (pc \in {"breakpoint", "for_work_orders", "done"} /\ wo_i >= 1 /\ signs # <<>>) =>
           IsHoldUpdate(WritesOfWorkOrder[Len(WritesOfWorkOrder)])

\* C16: the hold update is the last step of a work order: it is made once for
\* every work order whose writes all succeeded, never before the edit of the
\* last sign, and after it main goes on with the next work order.
C16_HoldIsFinalStep ==
    /\ [](HoldUpdateIsLast /\ HoldUpdateIsIssued)
    /\ [][(pc = "for_signs" /\ sign_i = Len(signs)) =>
              pc' = "create_knack_work_order_update_payload"]_vars
    /\ [][(pc = "update_hold" /\ writes' # writes) =>
              /\ IsHoldUpdate(writes'[Len(writes')])
              /\ pc' = "breakpoint"]_vars
    /\ [][(pc = "breakpoint") => pc' = "for_work_orders"]_vars

(***************************************************************************)
(* The reference segment and the matched segments                          *)
(***************************************************************************)

\* the signs whose matched segment is named n, and the least LEFT_BLOCK_FROM
\* and the greatest LEFT_BLOCK_TO of these segments
Named(n) == {i \in DOMAIN sign_segments : NameAt(i) = n}
LeastFrom(n) ==
    CHOOSE b \in {sign_segments[i].attributes.LEFT_BLOCK_FROM : i \in Named(n)} :
        \A i \in Named(n) : b <= sign_segments[i].attributes.LEFT_BLOCK_FROM
GreatestTo(n) ==
    CHOOSE b \in {sign_segments[i].attributes.LEFT_BLOCK_TO : i \in Named(n)} :
        \A i \in Named(n) : b >= sign_segments[i].attributes.LEFT_BLOCK_TO

\* C17: the reference segment id is the SEGMENT_ID of the segment matched to
\* the first sign whose matched segment has the selected name, and the block
\* range of the location is that of the segments of this name alone.
C17_ReferenceSegment ==
    (pc = "set_knack_user_id") =>
        \E n \in StreetNames :
            /\ IsSelected(n)
            /\ attributes.LOCATION_STREET_SEGMENT_ID_REFERENCE
                   = sign_segments[FirstOf(n)].attributes.SEGMENT_ID
            /\ \E s, e \in Hundreds :
                   /\ s <= LeastFrom(n) /\ LeastFrom(n) < s + 100
                   /\ e - 100 < GreatestTo(n) /\ GreatestTo(n) <= e
                   /\ attributes.GENERATED_LOCATION_FROM_API \in
                          {ToString(s) \o " BLK " \o n,
                           ToString(s) \o "-" \o ToString(e) \o " " \o n}

\* the first sign is matched to a segment of another street, with other block
\* numbers, than the two signs after it
C17_Witness ==
    /\ pc = "set_knack_user_id"
    /\ Len(sign_segments) = 3
    /\ NameAt(1) = "OAK ST"
    /\ sign_segments[1].attributes.LEFT_BLOCK_TO = 1240
    /\ NameAt(2) = "MAIN ST"
    /\ NameAt(3) = "MAIN ST"
    /\ attributes.LOCATION_STREET_SEGMENT_ID_REFERENCE = sign_segments[2].attributes.SEGMENT_ID
    /\ attributes.LOCATION_STREET_SEGMENT_ID_REFERENCE # sign_segments[1].attributes.SEGMENT_ID
    /\ attributes.GENERATED_LOCATION_FROM_API = "500-700 MAIN ST"

\* C18: after identify_nearest_sign_segments the list sign_segments has one
\* entry per sign, in the order of the signs; entry i is what
\* find_nearest_feature returns for sign i and the street segments of the work
\* order, a segment of these at the least distance from the sign; nothing of
\* what the list held before the call is left.
C18_ParallelToSigns ==
    (pc # "identify_nearest_sign_segments") =>
        /\ Len(sign_segments) = Len(signs)
        /\ \A i \in DOMAIN signs :
               /\ sign_segments[i] = find_nearest_feature(signs[i], street_segments)[1]
               /\ IF street_segments = <<>>
                  THEN sign_segments[i] = None
                  ELSE \E j \in DOMAIN street_segments :
                          /\ sign_segments[i] = street_segments[j]
                          /\ \A k \in DOMAIN street_segments :
                                 AbsDiff(signs[i].geometry.x, street_segments[j].geometry.x)
                                     <= AbsDiff(signs[i].geometry.x, street_segments[k].geometry.x)

\* three signs, the second nearest to another segment than the first and third
C18_Witness ==
    /\ pc = "construct_location"
    /\ Len(signs) = 3
    /\ Len(street_segments) = 2
    /\ sign_segments = <<street_segments[2], street_segments[1], street_segments[2]>>
    /\ street_segments[1] # street_segments[2]

(***************************************************************************)
(* The data of the signs and the records of the signs                      *)
(***************************************************************************)

\* a sign whose INSTRUCTIONS the job does not know, or that lacks an attribute
\* of the field map of the signs
Unusable(sign) ==
    \/ sign.attributes.INSTRUCTIONS \notin {Str("REPLACE"), Str("INSTALL"), Str("REMOVE")}
    \/ \E k \in DOMAIN FIELD_MAP.signs_locations \
                 {"SIGNS_LOCATION", "ENGINEER_NOTE", "CREATED_BY", "MODIFIED_BY"} :
           k \notin DOMAIN sign.attributes

\* C19: a work order with a sign of unknown INSTRUCTIONS, or without an
\* attribute the field map of the signs requires, fails in
\* create_knack_signs_payload at the latest, before its record is created:
\* nothing is written for it or for any of its signs.
C19_ValidationBeforeWrites ==
    (wo_i >= 1 /\ \E i \in DOMAIN signs : Unusable(signs[i])) =>
        /\ pc \in BeforeRecord \ {"create_knack_work_order"} \/ pc = "crashed"
        /\ pc = "crashed" => ret.at \in BeforeRecord \ {"create_knack_work_order"}
        /\ (pc = "crashed" /\ ret.at = "create_knack_signs_payload")
               => ret.exc \in {"ValueError", "KeyError"}
        /\ WritesOfWorkOrder = <<>>
        /\ agol_work_orders[attributes.OBJECTID] = NoWorkOrderKnackFields
        /\ \A i \in DOMAIN signs :
               /\ WritesOfSign(signs[i].attributes.OBJECTID) = <<>>
               /\ agol_signs[signs[i].attributes.OBJECTID] = NoSignKnackFields

\* the payload of the first sign was built, the second sign has an unknown
\* instruction
C19_Witness ==
    /\ pc = "crashed"
    /\ ret.at = "create_knack_signs_payload"
    /\ ret.exc = "ValueError"
    /\ Len(signs) >= 2
    /\ signs[1].knack_payload # None
    /\ signs[2].attributes.INSTRUCTIONS = Str("RELOCATE")

\* C20: every record of a sign that Knack is sent has as its parent the id of
\* the record created earlier in the same run for the work order of the sign,
\* and nothing else.
C20_ParentOfSignRecord ==
    \A i \in DOMAIN writes :
        IsSignRecord(writes[i]) =>
            /\ (writes[i].sign - 1) \div 10 = writes[i].wo
            /\ \E j \in 1..(i - 1) :
                   /\ IsWorkOrderRecord(writes[j])
                   /\ writes[j].run = writes[i].run
                   /\ writes[j].wo = writes[i].wo
                   /\ writes[i].parent = <<writes[j].id>>
            /\ \A j \in DOMAIN writes :
                   (IsWorkOrderRecord(writes[j]) /\ writes[j].wo # writes[i].wo)
                       => writes[i].parent # <<writes[j].id>>

\* the records of a sign of each of two work orders were sent
C20_Witness ==
    \E i, j \in DOMAIN writes :
        /\ IsSignRecord(writes[i]) /\ writes[i].wo = 1
        /\ IsSignRecord(writes[j]) /\ writes[j].wo = 2
        /\ writes[i].parent # writes[j].parent

(***************************************************************************)
(* The validation of the geometries                                        *)
(***************************************************************************)

\* the run ended in the constructor of a WorkOrder, for an invalid geometry
InvalidGeometryAtSetup ==
    /\ pc = "crashed"
    /\ ret.at = "main"
    /\ ret.exc = "ValueError"
    /\ \E i \in WorkOrderIds : ret.msg = "Invalid feature geometry: " \o ToString(i)

\* C21: the geometry of every work order of the batch is validated before
\* the first work order is processed: the loop runs only over a batch whose
\* geometries are all valid, and a run that an invalid geometry ends has
\* processed no work order and written nothing.
C21_GeometriesValidatedFirst ==
    /\ (work_orders # <<>>) =>
           \A i \in DOMAIN work_orders : work_orders[i].geometry.valid
    /\ (pc \notin {"idle", "main", "done", "crashed"} \/ wo_i >= 1 \/ writes # <<>>) =>
           /\ work_orders # <<>>
           /\ \A i \in DOMAIN work_orders : work_orders[i].geometry.valid
    /\ InvalidGeometryAtSetup =>
           /\ wo_i = 0
           /\ work_orders = <<>>
           /\ NoWorkOrder
           /\ NoWrites

\* the first geometry of the batch is valid, the second is not
C21_Witness ==
    /\ InvalidGeometryAtSetup
    /\ ret.msg = "Invalid feature geometry: 2"

====
